---- MODULE Spec2Model ----
(***************************************************************************)
(* Campaign-dispatch scheduler of oss-email-campaigns                      *)
(* (backend/app/main.py, models.py, services/task_service.py).             *)
(*                                                                         *)
(* One campaign row, its email_sends rows, the Cloud Tasks queue, and the  *)
(* request handlers that touch them.  Handlers run on several server       *)
(* instances against one relational store, so a handler is a sequence of   *)
(* steps, one per database statement (query, commit) or collaborator call, *)
(* and steps of different handlers interleave.  Every handler owns a       *)
(* SQLAlchemy session: an assignment to a loaded row marks a column dirty   *)
(* when the new value differs from the loaded one, and a commit issues an  *)
(* UPDATE of exactly the dirty columns.                                    *)
(***************************************************************************)
EXTENDS Integers, Sequences, FiniteSets, TLC

\* ---------------------------------------------------------------- bounds
MaxRows == 2          \* rows in the recipient sheet
MaxRequests == 2      \* 'send campaign' requests
MaxWorkers == 2       \* Send Worker handler invocations that may overlap
MaxDeliveries == 2    \* task deliveries by the queue (at-least-once)
MaxStops == 1         \* 'stop campaign' requests
MaxRecipients == 2    \* recipients handed to create_campaign_tasks
MaxElapsed == 1       \* seconds that pass between two readings of the clock
MaxUpdates == 1       \* 'update campaign' requests
MaxCalls == 2         \* calls of create_campaign_tasks for the same ids

Requests == 1..MaxRequests
Workers == 1..MaxWorkers

\* ------------------------------------------------------------ enumerations
CampaignStatus == {"draft", "scheduled", "sending", "completed", "failed", "cancelled"}
EmailStatus == {"pending", "sent", "failed", "bounced", "skipped"}

VARIABLES
    sheet,          \* recipient source: sequence of rows, each row its is_valid flag
    campaign,       \* the campaigns row ("none" status: not created yet)
    email_sends,    \* the email_sends table, row id = index
    tasks,          \* ids of email_sends that have a task in the queue
    deliveries,     \* number of task deliveries made by the queue
    req,            \* per 'send campaign' request: position and session
    wrk,            \* per Send Worker invocation: position and session
    stp,            \* the 'stop campaign' request: position and session
    stops,          \* number of 'stop campaign' requests started
    transport,      \* per email_sends row: number of send_email calls made for it
    policy,         \* the campaign's delay and business-hours columns
    updates,        \* number of 'update campaign' requests made
    clock,          \* datetime.utcnow(), in seconds since a Monday 00:00:00 UTC
    sched,          \* the running call of create_campaign_tasks: position and locals
    probe,          \* a call of the business-hours functions: argument and results
    queue           \* names of the tasks that create_campaign_tasks has in the queue

vars == <<sheet, campaign, email_sends, tasks, deliveries, req, wrk, stp, stops, transport,
          policy, updates, clock, sched, probe, queue>>

\* ------------------------------------------------------------- store rows
NoCampaign ==
    [status |-> "none", total_recipients |-> 0, emails_sent |-> 0,
     emails_failed |-> 0, emails_pending |-> 0]

NewEmailSend ==
    [status |-> "pending", send_attempts |-> 0, error_message |-> "none",
     smtp_response |-> "none", marked_as_sent_in_sheet |-> FALSE]

\* The session's pending changes after the row loaded as 'loaded' was assigned
\* the values of 'new': the columns whose value differs, with the new value.
Dirty(loaded, new) ==
    [f \in {g \in DOMAIN new : new[g] # loaded[g]} |-> new[f]]

\* Session.commit(): UPDATE of the dirty columns, and no others.
Flush(db, upd) ==
    [f \in DOMAIN db |-> IF f \in DOMAIN upd THEN upd[f] ELSE db[f]]

NoUpdate == Dirty(<<>>, <<>>)

CountStatus(es, st) == Cardinality({i \in DOMAIN es : es[i].status = st})

\* Campaign.update_statistics: four COUNT queries over the campaign's rows.
update_statistics(c, es) ==
    [c EXCEPT !.total_recipients = Len(es),
              !.emails_sent = CountStatus(es, "sent"),
              !.emails_failed = CountStatus(es, "failed"),
              !.emails_pending = CountStatus(es, "pending")]

\* GoogleSheetsService.get_sheet_info(...).valid_emails
ValidEmails(rows) == Cardinality({i \in DOMAIN rows : rows[i]})

Sheets == [1..MaxRows -> BOOLEAN]

\* ------------------------------------------------------------------- time
\* Instants are seconds since a Monday 00:00:00 UTC; a timezone is its UTC
\* offset in hours.
Minute == 60
Hour == 60 * Minute
Day == 24 * Hour

At(day, h, m, sec) == day * Day + h * Hour + m * Minute + sec

\* The names pytz knows, as UTC offsets, and a name it does not know.
KnownZones == -12..14
UnknownZone == 99

\* A fallback to a zone that is not UTC.
UtcOffsetMut(tz) == IF tz \in KnownZones THEN tz ELSE 3

\* business_hours.py:36-42, 78-83 pytz.timezone(campaign_timezone); on
\* UnknownTimeZoneError the time is taken as UTC
UtcOffset(tz) == IF tz \in KnownZones THEN tz ELSE 0

\* business_hours.py:38-39 current_time.replace(tzinfo=UTC).astimezone(tz)
LocalTime(tz, t) == t + UtcOffset(tz) * Hour

\* A calendar in which the week starts a day late.
WeekdayMut(lt) == (lt \div Day + 1) % 7

\* datetime.weekday(): Monday is 0, Sunday is 6
Weekday(lt) == (lt \div Day) % 7

\* datetime.hour
HourOf(lt) == (lt % Day) \div Hour

\* A replace that resets the date as well.
ReplaceHourMut(lt, h) == h * Hour

\* check_time.replace(hour=h, minute=0, second=0, microsecond=0)
ReplaceHour(lt, h) == (lt \div Day) * Day + h * Hour

\* A window that is closed at both ends.
is_within_business_hoursMut(a, t) ==
    LET local_time == LocalTime(a.timezone, t)
    IN IF a.business_days_only /\ Weekday(local_time) >= 5
       THEN FALSE
       ELSE /\ a.business_hours_start <= HourOf(local_time)
            /\ HourOf(local_time) <= a.business_hours_end

\* business_hours.py:44-52
is_within_business_hours(a, t) ==
    LET local_time == LocalTime(a.timezone, t)
    IN IF a.business_days_only /\ Weekday(local_time) >= 5
       THEN FALSE
       ELSE /\ a.business_hours_start <= HourOf(local_time)
            /\ HourOf(local_time) < a.business_hours_end

\* A horizon of no days: the search gives up at once.
LookAheadMut == 0 * 24 * 60

\* business_hours.py:89 the look-ahead of calculate_next_business_hour
LookAhead == 7 * 24 * 60

\* A search that gives up without the hour of grace.
FallbackMut(current_time) == current_time

\* business_hours.py:130-131 no business hour found: current_time + 1 hour
Fallback(current_time) == current_time + Hour

\* business_hours.py:91-111 this iteration returns: check_time is on a
\* permitted day and its hour is in the window
SearchHit(a, check_time) ==
    /\ ~(a.business_days_only /\ Weekday(check_time) >= 5)
    /\ a.business_hours_start <= HourOf(check_time)
    /\ HourOf(check_time) < a.business_hours_end

\* business_hours.py:91-128 the check_time of the next iteration: Monday
\* after a weekend, the start of today's window when it is still to come,
\* the start of tomorrow's otherwise
SearchNext(a, check_time) ==
    IF a.business_days_only /\ Weekday(check_time) >= 5
    THEN LET until == (7 - Weekday(check_time)) % 7
             days_until_monday == IF until = 0 THEN 1 ELSE until
         IN ReplaceHour(check_time, a.business_hours_start) + days_until_monday * Day
    ELSE IF HourOf(check_time) < a.business_hours_start
    THEN ReplaceHour(check_time, a.business_hours_start)
    ELSE ReplaceHour(check_time + Day, a.business_hours_start)

\* business_hours.py:110 check_time.astimezone(pytz.UTC)
ToUtc(a, check_time) == check_time - UtcOffset(a.timezone) * Hour

\* business_hours.py:89-131 the search loop: check_time is local, the result
\* is converted back to UTC; when the look-ahead is used up the result is
\* current_time + 1 hour.
RECURSIVE NextBusinessHourFrom(_, _, _, _)
NextBusinessHourFrom(a, check_time, left, current_time) ==
    IF left = 0 THEN Fallback(current_time)
    ELSE IF SearchHit(a, check_time) THEN ToUtc(a, check_time)
    ELSE NextBusinessHourFrom(a, SearchNext(a, check_time), left - 1, current_time)

\* A search that starts at current_time itself.
calculate_next_business_hourMut(a, t) ==
    NextBusinessHourFrom(a, LocalTime(a.timezone, t), LookAhead, t)

\* business_hours.py:55-131
calculate_next_business_hour(a, t) ==
    NextBusinessHourFrom(a, LocalTime(a.timezone, t) + Minute, LookAhead, t)

\* ----------------------------------------------------------------- policy
\* models.py:99-107 the column defaults
DefaultPolicy ==
    [delay_min_minutes |-> 4, delay_max_minutes |-> 7, respect_business_hours |-> FALSE,
     business_hours_start |-> 7, business_hours_end |-> 17, business_days_only |-> TRUE,
     timezone |-> 0]

\* The delay ranges, windows and timezones the campaigns are given.
DelayRanges == {<<1, 2>>, <<2, 2>>, <<2, 1>>}
Windows == {<<9, 17>>, <<0, 8>>}
Timezones == {0, 3}

Policies ==
    {[delay_min_minutes |-> d[1], delay_max_minutes |-> d[2], respect_business_hours |-> r,
      business_hours_start |-> h[1], business_hours_end |-> h[2], business_days_only |-> w,
      timezone |-> z] :
        d \in DelayRanges, r \in BOOLEAN, h \in Windows, w \in BOOLEAN, z \in Timezones}

\* main.py:470-474 with task_service.py:126-132: start_campaign passes the two
\* delays ('or 4', 'or 7') and nothing else, so the business-hours
\* parameters of create_campaign_tasks take their defaults.
StartArgs(p) ==
    [delay_min_minutes |-> IF p.delay_min_minutes = 0 THEN 4 ELSE p.delay_min_minutes,
     delay_max_minutes |-> IF p.delay_max_minutes = 0 THEN 7 ELSE p.delay_max_minutes,
     respect_business_hours |-> FALSE, business_hours_start |-> 7,
     business_hours_end |-> 17, business_days_only |-> TRUE, timezone |-> 0]

\* The local instants at which a schedule is started: around the opening and
\* the closing of the window, inside it, and on the weekend.
LocalInstants(p) ==
    {At(0, 8, 59, 30), At(0, 10, 0, 30), At(4, 16, 59, 30), At(5, 10, 0, 0),
     At(6, 23, 59, 30), At(1, p.business_hours_start, 0, 0),
     At(1, p.business_hours_end, 0, 0)}

\* create_campaign_tasks is not running.  t are the dispatch instants
\* computed so far (current_schedule_time of each iteration), raw the
\* candidates they were computed from, not_before the instant given to the
\* queue for each task (-1: create_email_task failed).
IdleSched ==
    [pc |-> "idle", caller |-> "none", args |-> DefaultPolicy, n |-> 0, i |-> 0, calls |-> 1,
     now |-> 0, current_schedule_time |-> 0, delay_minutes |-> 0,
     t |-> <<>>, raw |-> <<>>, not_before |-> <<>>]

\* No business-hours function has been called.
NoProbe ==
    [pc |-> "idle", current_time |-> 0, within |-> FALSE, next |-> 0,
     unknown_within |-> FALSE, unknown_next |-> 0,
     check_time |-> 0, left |-> 0, degraded |-> FALSE]

\* --------------------------------------------------------- process records
IdleReq ==
    [pc |-> "idle", c |-> NoCampaign, upd |-> NoUpdate, rows |-> <<>>, ids |-> <<>>,
     i |-> 1, created |-> 0, failed |-> 0, scheduled |-> 0, outcome |-> "none",
     args |-> DefaultPolicy]

\* id..message are the handler's locals; result and message are the 'status'
\* of the dictionary it returns and what its 'message' is about: "status" for
\* 'Email status is ...', "cancelled" for 'Campaign was cancelled', "sending"
\* for the outcome of the send, "unexpected" for 'Unexpected error ...'.
\* startPending and startCancelled record whether the row was PENDING and the
\* campaign CANCELLED when the running invocation started.
IdleWrk ==
    [pc |-> "idle", id |-> 0, e |-> NewEmailSend, upd |-> NoUpdate,
     out |-> "none", result |-> "none", message |-> "none",
     startPending |-> FALSE, startCancelled |-> FALSE]

IdleStp == [pc |-> "idle", upd |-> NoUpdate, outcome |-> "none"]

InitStore ==
    /\ campaign = NoCampaign
    /\ email_sends = <<>>
    /\ tasks = {}
    /\ deliveries = 0
    /\ req = [q \in Requests |-> IdleReq]
    /\ wrk = [w \in Workers |-> IdleWrk]
    /\ stp = IdleStp
    /\ stops = 0
    /\ transport = <<>>
    /\ updates = 0
    /\ sched = IdleSched
    /\ probe = NoProbe
    /\ queue = {}

Init ==
    /\ sheet \in Sheets
    /\ InitStore
    /\ policy = DefaultPolicy
    /\ clock = 0

\* ------------------------------------------------------- create_campaign
create_campaign ==
    /\ campaign.status = "none"
    /\ campaign' = [NoCampaign EXCEPT !.status = "draft",
                                      !.total_recipients = ValidEmails(sheet),
                                      !.emails_pending = ValidEmails(sheet)]
    /\ UNCHANGED <<sheet, email_sends, tasks, deliveries, req, wrk, stp, stops, transport, policy, updates, clock, sched, probe, queue>>

\* --------------------------------------------------------- send_campaign
\* A gate that a SENDING campaign passes as well.
CanBeSentMut(st) == st \in {"draft", "scheduled", "sending"}

\* main.py:969 the status gate of 'send campaign'
CanBeSent(st) == st \in {"draft", "scheduled"}

\* The request has returned: its outcome, tasks_created and emails_scheduled,
\* the number of create_email_task calls that failed and the arguments it
\* gave to create_campaign_tasks stay on record, its session is closed.
DoneReq(r, out) ==
    [IdleReq EXCEPT !.pc = "done", !.outcome = out, !.created = r.created,
                    !.failed = r.failed, !.scheduled = r.scheduled, !.args = r.args]

\* main.py:960-977 load the campaign, check the gate, assign SENDING (or
\* SCHEDULED when the request does not send immediately)
SendLoad(q) ==
    /\ req[q].pc = "idle"
    /\ \A p \in Requests : p < q => req[p].pc # "idle"
    /\ campaign.status # "none"
    /\ IF CanBeSent(campaign.status)
       THEN \E imm \in BOOLEAN :
                req' = [req EXCEPT ![q] = [@ EXCEPT !.pc = "gate", !.upd =
                          Dirty(campaign, [campaign EXCEPT !.status =
                                              IF imm THEN "sending" ELSE "scheduled"])]]
       ELSE req' = [req EXCEPT ![q] = DoneReq(@, "rejected")]
    /\ UNCHANGED <<sheet, campaign, email_sends, tasks, deliveries, wrk, stp, stops, transport, policy, updates, clock, sched, probe, queue>>

\* main.py:979 commit
SendCommit(q) ==
    /\ req[q].pc = "gate"
    /\ campaign' = Flush(campaign, req[q].upd)
    /\ req' = [req EXCEPT ![q] = [@ EXCEPT !.pc = "start_load", !.upd = NoUpdate]]
    /\ UNCHANGED <<sheet, email_sends, tasks, deliveries, wrk, stp, stops, transport, policy, updates, clock, sched, probe, queue>>

\* ----------------------------------------- start_campaign_with_cloud_tasks
\* main.py:382-394 new session, load the campaign, assign SENDING
StartLoad(q) ==
    /\ req[q].pc = "start_load"
    /\ req' = [req EXCEPT ![q] = [@ EXCEPT !.pc = "mark_sending", !.upd =
                   Dirty(campaign, [campaign EXCEPT !.status = "sending"])]]
    /\ UNCHANGED <<sheet, campaign, email_sends, tasks, deliveries, wrk, stp, stops, transport, policy, updates, clock, sched, probe, queue>>

\* main.py:395 commit
StartMarkSending(q) ==
    /\ req[q].pc = "mark_sending"
    /\ campaign' = Flush(campaign, req[q].upd)
    /\ req' = [req EXCEPT ![q] = [@ EXCEPT !.pc = "read_sheet", !.upd = NoUpdate]]
    /\ UNCHANGED <<sheet, email_sends, tasks, deliveries, wrk, stp, stops, transport, policy, updates, clock, sched, probe, queue>>

\* main.py:397-416 read the recipient source.  The sheets service may be
\* missing (raise at 399), the read may fail (except at 407, status = FAILED
\* assigned at 409), or it returns the rows (total_recipients assigned at
\* 416); campaign.google_sheet_id at 403 reloads the expired row.
StartReadSheet(q) ==
    /\ req[q].pc = "read_sheet"
    /\ \E out \in {"ok", "error", "noservice"} :
          req' = [req EXCEPT ![q] =
                    CASE out = "ok" ->
                           [@ EXCEPT !.pc = "set_total", !.rows = sheet, !.upd =
                              Dirty(campaign, [campaign EXCEPT !.total_recipients = Len(sheet)])]
                      [] out = "error" ->
                           [@ EXCEPT !.pc = "sheet_failed", !.upd =
                              Dirty(campaign, [campaign EXCEPT !.status = "failed"])]
                      [] out = "noservice" -> [@ EXCEPT !.pc = "unexpected"]]
    /\ UNCHANGED <<sheet, campaign, email_sends, tasks, deliveries, wrk, stp, stops, transport, policy, updates, clock, sched, probe, queue>>

\* A handler that returns the error without marking the campaign.
StartSheetFailedMut(q) ==
    /\ req[q].pc = "sheet_failed"
    /\ req' = [req EXCEPT ![q] = DoneReq(@, "error")]
    /\ UNCHANGED <<sheet, campaign, email_sends, tasks, deliveries, wrk, stp, stops, transport, policy, updates, clock, sched, probe, queue>>

\* main.py:412-413 Google Sheets error: commit FAILED, return error
StartSheetFailed(q) ==
    /\ req[q].pc = "sheet_failed"
    /\ campaign' = Flush(campaign, req[q].upd)
    /\ req' = [req EXCEPT ![q] = DoneReq(@, "error")]
    /\ UNCHANGED <<sheet, email_sends, tasks, deliveries, wrk, stp, stops, transport, policy, updates, clock, sched, probe, queue>>

\* main.py:503-516 unexpected error: query the campaign again (the expired
\* row is refreshed), status = FAILED, commit, return error
StartUnexpected(q) ==
    /\ req[q].pc = "unexpected"
    /\ campaign' = Flush(campaign, Dirty(campaign, [campaign EXCEPT !.status = "failed"]))
    /\ req' = [req EXCEPT ![q] = DoneReq(@, "error")]
    /\ UNCHANGED <<sheet, email_sends, tasks, deliveries, wrk, stp, stops, transport, policy, updates, clock, sched, probe, queue>>

\* main.py:417 commit total_recipients = len(email_data)
StartSetTotal(q) ==
    /\ req[q].pc = "set_total"
    /\ campaign' = Flush(campaign, req[q].upd)
    /\ req' = [req EXCEPT ![q] = [@ EXCEPT !.pc = "materialize", !.upd = NoUpdate]]
    /\ UNCHANGED <<sheet, email_sends, tasks, deliveries, wrk, stp, stops, transport, policy, updates, clock, sched, probe, queue>>

\* A loop that skips no row.
ValidRowsMut(rows) == [j \in 1..Len(rows) |-> TRUE]

\* main.py:424 rows that get an EmailSend record, in sheet order
RECURSIVE ValidRows(_)
ValidRows(rows) ==
    IF rows = <<>> THEN <<>>
    ELSE (IF Head(rows) THEN <<TRUE>> ELSE <<>>) \o ValidRows(Tail(rows))

\* A commit that is lost.
InsertedMut(es, k) == es

\* main.py:449-462 the table after the commit of k new PENDING rows
Inserted(es, k) == es \o [j \in 1..k |-> NewEmailSend]

\* main.py:419-463 one PENDING EmailSend per valid row, one commit.  When
\* db.flush() at 459 raises, nothing has been committed and the session's
\* transaction is rolled back; the handler at 503-516 queries the campaign
\* through the same session without a rollback(), that query raises, the
\* exception is caught at 513 and the request returns an error: the campaign
\* row is left as it is.  When db.commit() at 462 raises, the session has
\* rolled back and can be used: the handler loads the campaign and commits
\* FAILED.
StartMaterialize(q) ==
    /\ req[q].pc = "materialize"
    /\ LET k == Len(ValidRows(req[q].rows))
           base == Len(email_sends)
       IN \E res \in IF k > 0 THEN {"ok", "flush", "commit"} ELSE {"ok", "commit"} :
             CASE res = "ok" ->
                     /\ email_sends' = Inserted(email_sends, k)
                     /\ transport' = transport \o [j \in 1..k |-> 0]
                     /\ req' = [req EXCEPT ![q] = [@ EXCEPT !.pc = "tasks_service", !.rows = <<>>,
                                                             !.ids = [j \in 1..k |-> base + j],
                                                             !.scheduled = k]]
                     /\ UNCHANGED campaign
               [] res = "flush" ->
                     /\ req' = [req EXCEPT ![q] = DoneReq(@, "error")]
                     /\ UNCHANGED <<campaign, email_sends, transport>>
               [] res = "commit" ->
                     /\ campaign' = [campaign EXCEPT !.status = "failed"]
                     /\ req' = [req EXCEPT ![q] = DoneReq(@, "error")]
                     /\ UNCHANGED <<email_sends, transport>>
    /\ UNCHANGED <<sheet, tasks, deliveries, wrk, stp, stops, policy, updates, clock, sched, probe, queue>>

\* main.py:465-474 get the tasks service; campaign.delay_min_minutes at 472
\* reloads the expired row, kept in c until the statistics are assigned.
\* When the service cannot be built (except at 489-501) status = FAILED is
\* assigned to the expired row, so it is written whatever the stored status.
StartTasksService(q) ==
    /\ req[q].pc = "tasks_service"
    /\ \E ok \in BOOLEAN :
          IF ok
          THEN /\ req' = [req EXCEPT ![q] = [@ EXCEPT !.pc = "enqueue", !.c = campaign, !.i = 1,
                                                       !.args = StartArgs(policy)]]
               /\ UNCHANGED campaign
          ELSE /\ campaign' = [campaign EXCEPT !.status = "failed"]
               /\ req' = [req EXCEPT ![q] = DoneReq(@, "error")]
    /\ UNCHANGED <<sheet, email_sends, tasks, deliveries, wrk, stp, stops, transport, policy, updates, clock, sched, probe, queue>>

\* A loop that gives up at the first create_email_task that fails: the
\* exception reaches main.py:489-501.
StartEnqueueMut(q) ==
    /\ req[q].pc = "enqueue"
    /\ req[q].i <= Len(req[q].ids)
    /\ \E ok \in BOOLEAN :
          IF ok
          THEN /\ tasks' = tasks \cup {req[q].ids[req[q].i]}
               /\ req' = [req EXCEPT ![q] = [@ EXCEPT !.i = @ + 1, !.created = @ + 1]]
               /\ UNCHANGED campaign
          ELSE /\ campaign' = Flush(campaign,
                                    Dirty(req[q].c, [req[q].c EXCEPT !.status = "failed"]))
               /\ req' = [req EXCEPT ![q] = DoneReq([@ EXCEPT !.failed = @ + 1], "error")]
               /\ UNCHANGED tasks
    /\ UNCHANGED <<sheet, email_sends, deliveries, wrk, stp, stops, transport, policy, updates, clock, sched, probe, queue>>

\* task_service.py:162-217 one create_email_task per id; a failed call is
\* logged and the loop continues.  For every id but the first
\* random.randint(delay_min_minutes, delay_max_minutes) is called at 178: it
\* raises when the range is empty, the exception leaves
\* create_campaign_tasks and main.py:489-501 assigns FAILED to the loaded
\* row, commits and returns an error.
StartEnqueue(q) ==
    /\ req[q].pc = "enqueue"
    /\ req[q].i <= Len(req[q].ids)
    /\ IF req[q].i > 1 /\ req[q].args.delay_min_minutes > req[q].args.delay_max_minutes
       THEN /\ campaign' = Flush(campaign,
                                 Dirty(req[q].c, [req[q].c EXCEPT !.status = "failed"]))
            /\ req' = [req EXCEPT ![q] = DoneReq(@, "error")]
            /\ UNCHANGED tasks
       ELSE \E ok \in BOOLEAN :
               /\ tasks' = IF ok THEN tasks \cup {req[q].ids[req[q].i]} ELSE tasks
               /\ req' = [req EXCEPT ![q] = [@ EXCEPT !.i = @ + 1,
                                                       !.created = IF ok THEN @ + 1 ELSE @,
                                                       !.failed = IF ok THEN @ ELSE @ + 1]]
               /\ UNCHANGED campaign
    /\ UNCHANGED <<sheet, email_sends, deliveries, wrk, stp, stops, transport, policy, updates, clock, sched, probe, queue>>

\* main.py:478-479 campaign.update_statistics(db): the COUNT queries
StartCount(q) ==
    /\ req[q].pc = "enqueue"
    /\ req[q].i > Len(req[q].ids)
    /\ req' = [req EXCEPT ![q] = [@ EXCEPT !.pc = "finish", !.c = NoCampaign, !.upd =
                   Dirty(req[q].c, update_statistics(req[q].c, email_sends))]]
    /\ UNCHANGED <<sheet, campaign, email_sends, tasks, deliveries, wrk, stp, stops, transport, policy, updates, clock, sched, probe, queue>>

\* main.py:480-487 commit the statistics, return success
StartFinish(q) ==
    /\ req[q].pc = "finish"
    /\ campaign' = Flush(campaign, req[q].upd)
    /\ req' = [req EXCEPT ![q] = DoneReq(@, "success")]
    /\ UNCHANGED <<sheet, email_sends, tasks, deliveries, wrk, stp, stops, transport, policy, updates, clock, sched, probe, queue>>

\* The server instance dies while start_campaign_with_cloud_tasks runs: the
\* session and its uncommitted changes are lost, nothing is returned.
StartCrash(q) ==
    /\ req[q].pc \notin {"idle", "done"}
    /\ req' = [req EXCEPT ![q] = DoneReq(@, "crashed")]
    /\ UNCHANGED <<sheet, campaign, email_sends, tasks, deliveries, wrk, stp, stops, transport, policy, updates, clock, sched, probe, queue>>

\* --------------------------------------------------------- update_campaign
\* main.py:859 the statuses in which 'update campaign' is refused
CannotBeUpdated(st) == st \in {"sending", "completed"}

\* main.py:850-879 with schemas.py:92-112: the request sets the two delays;
\* CampaignUpdate bounds each of them but does not compare them.
update_campaign ==
    /\ campaign.status # "none"
    /\ updates < MaxUpdates
    /\ updates' = updates + 1
    /\ IF CannotBeUpdated(campaign.status)
       THEN UNCHANGED policy
       ELSE \E d \in DelayRanges :
               policy' = [policy EXCEPT !.delay_min_minutes = d[1],
                                        !.delay_max_minutes = d[2]]
    /\ UNCHANGED <<sheet, campaign, email_sends, tasks, deliveries, req, wrk, stp, stops,
                   transport, clock, sched, probe, queue>>

\* ----------------------------------------------------------- stop_campaign
\* A 'stop campaign' that accepts a DRAFT campaign as well.
CanBeStoppedMut(st) == st \in {"sending", "scheduled", "draft"}

\* main.py:1032 the statuses 'stop campaign' accepts
CanBeStopped(st) == st \in {"sending", "scheduled"}

\* main.py:1023-1040 load the campaign, check its status, assign CANCELLED
StopLoad ==
    /\ stp.pc = "idle"
    /\ stops < MaxStops
    /\ campaign.status # "none"
    /\ stops' = stops + 1
    /\ stp' = IF CanBeStopped(campaign.status)
              THEN [IdleStp EXCEPT !.pc = "commit", !.upd =
                      Dirty(campaign, [campaign EXCEPT !.status = "cancelled"])]
              ELSE [IdleStp EXCEPT !.outcome = "error"]
    /\ UNCHANGED <<sheet, campaign, email_sends, tasks, deliveries, req, wrk, transport, policy, updates, clock, sched, probe, queue>>

\* main.py:1042 commit
StopCommit ==
    /\ stp.pc = "commit"
    /\ campaign' = Flush(campaign, stp.upd)
    /\ stp' = [IdleStp EXCEPT !.outcome = "stopped"]
    /\ UNCHANGED <<sheet, email_sends, tasks, deliveries, req, wrk, stops, transport, policy, updates, clock, sched, probe, queue>>

\* ------------------------------------------------- handle_send_email_task
\* main.py:1352 the handler has returned status res with message msg to the
\* queue: the invocation is over, what it returned stays on record until the
\* next invocation.
Finished(res, msg) == [IdleWrk EXCEPT !.result = res, !.message = msg]

\* The queue invokes the handler with the id of a task it holds
\* (main.py:1303-1323); a task may be delivered more than once.
Deliver(w, id) ==
    /\ wrk[w].pc = "idle"
    /\ \A v \in Workers : v < w => wrk[v].pc # "idle"
    /\ id \in tasks
    /\ deliveries < MaxDeliveries
    /\ deliveries' = deliveries + 1
    /\ wrk' = [wrk EXCEPT ![w] = [IdleWrk EXCEPT !.pc = "load", !.id = id,
                                     !.startPending = /\ id \in DOMAIN email_sends
                                                      /\ email_sends[id].status = "pending",
                                     !.startCancelled = (campaign.status = "cancelled")]]
    /\ UNCHANGED <<sheet, campaign, email_sends, tasks, req, stp, stops, transport, policy, updates, clock, sched, probe, queue>>

\* A guard that lets only SENT rows through as already processed.
AlreadyProcessedMut(st) == st = "sent"

\* main.py:244 the idempotency guard of send_single_email_task
AlreadyProcessed(st) == st # "pending"

\* main.py:238-245 load the EmailSend row: 'error' when there is none,
\* 'skipped' unless it is PENDING
LoadRecord(w) ==
    /\ wrk[w].pc = "load"
    /\ wrk' = [wrk EXCEPT ![w] =
                  IF wrk[w].id \notin DOMAIN email_sends
                  THEN Finished("error", "record not found")
                  ELSE LET e == email_sends[wrk[w].id]
                       IN IF AlreadyProcessed(e.status)
                          THEN Finished("skipped", "status")
                          ELSE [@ EXCEPT !.pc = "load_campaign", !.e = e]]
    /\ UNCHANGED <<sheet, campaign, email_sends, tasks, deliveries, req, stp, stops, transport, policy, updates, clock, sched, probe, queue>>

\* main.py:247-253 load the campaign: 'error' when there is none, otherwise
\* branch on CANCELLED
LoadCampaign(w) ==
    /\ wrk[w].pc = "load_campaign"
    /\ wrk' = [wrk EXCEPT ![w] =
                  IF campaign.status = "deleted"
                  THEN Finished("error", "campaign not found")
                  ELSE [@ EXCEPT !.pc = IF campaign.status = "cancelled"
                                        THEN "skip" ELSE "send"]]
    /\ UNCHANGED <<sheet, campaign, email_sends, tasks, deliveries, req, stp, stops, transport, policy, updates, clock, sched, probe, queue>>

\* main.py:254-257 cancelled campaign: SKIPPED, commit, return 'skipped'
CommitSkipped(w) ==
    /\ wrk[w].pc = "skip"
    /\ email_sends' = [email_sends EXCEPT ![wrk[w].id] =
                          Flush(@, Dirty(wrk[w].e, [wrk[w].e EXCEPT !.status = "skipped",
                                                                      !.error_message = "cancelled"]))]
    /\ wrk' = [wrk EXCEPT ![w] = Finished("skipped", "cancelled")]
    /\ UNCHANGED <<sheet, campaign, tasks, deliveries, req, stp, stops, transport, policy, updates, clock, sched, probe, queue>>

\* A handler that looks for its services only after it has called the
\* transport.
SendEmailLate(w) ==
    /\ wrk[w].pc = "send"
    /\ \E out \in {"noservice", "success", "failure", "exception"} :
          /\ wrk' = [wrk EXCEPT ![w] = IF out = "noservice"
                                       THEN Finished("error", "unexpected")
                                       ELSE [@ EXCEPT !.pc = "commit", !.out = out]]
          /\ transport' = [transport EXCEPT ![wrk[w].id] = @ + 1]
    /\ UNCHANGED <<sheet, campaign, email_sends, tasks, deliveries, req, stp, stops, policy, updates, clock, sched, probe, queue>>

\* A handler that calls the transport a second time when the first call
\* did not succeed.
SendEmailMut(w) ==
    /\ wrk[w].pc = "send"
    /\ \E out \in {"noservice", "success", "failure", "exception"} :
          IF out = "noservice"
          THEN /\ wrk' = [wrk EXCEPT ![w] = Finished("error", "unexpected")]
               /\ UNCHANGED transport
          ELSE /\ wrk' = [wrk EXCEPT ![w] = [@ EXCEPT !.pc = "commit", !.out = out]]
               /\ transport' = [transport EXCEPT ![wrk[w].id] =
                                    IF out = "success" THEN @ + 1 ELSE @ + 2]
    /\ UNCHANGED <<sheet, campaign, email_sends, tasks, deliveries, req, stp, stops, policy, updates, clock, sched, probe, queue>>

\* main.py:261-287 and 355-358: a missing service raises before the send and
\* the handler returns 'error'; otherwise email_service.send_email is called
\* and succeeds, returns a failure result, or an exception is raised.
SendEmail(w) ==
    /\ wrk[w].pc = "send"
    /\ \E out \in {"noservice", "success", "failure", "exception"} :
          IF out = "noservice"
          THEN /\ wrk' = [wrk EXCEPT ![w] = Finished("error", "unexpected")]
               /\ UNCHANGED transport
          ELSE /\ wrk' = [wrk EXCEPT ![w] = [@ EXCEPT !.pc = "commit", !.out = out]]
               /\ transport' = [transport EXCEPT ![wrk[w].id] = @ + 1]
    /\ UNCHANGED <<sheet, campaign, email_sends, tasks, deliveries, req, stp, stops, policy, updates, clock, sched, probe, queue>>

\* A handler that leaves the row as it was when the sheet could not be marked.
OutcomeMut(e, out, marked) ==
    CASE out = "success" -> IF marked
                            THEN [e EXCEPT !.status = "sent", !.smtp_response = "ok",
                                           !.marked_as_sent_in_sheet = TRUE,
                                           !.send_attempts = @ + 1]
                            ELSE e
      [] out = "failure" -> [e EXCEPT !.status = "failed", !.error_message = "smtp",
                                      !.send_attempts = @ + 1]
      [] out = "exception" -> [e EXCEPT !.status = "failed", !.error_message = "exception",
                                        !.send_attempts = @ + 1]

\* main.py:289-353 the row as the handler leaves it for each send outcome;
\* marked: google_sheets_service.mark_emails_as_sent (309-314) did not raise
Outcome(e, out, marked) ==
    CASE out = "success" -> [e EXCEPT !.status = "sent", !.smtp_response = "ok",
                                      !.marked_as_sent_in_sheet = marked,
                                      !.send_attempts = @ + 1]
      [] out = "failure" -> [e EXCEPT !.status = "failed", !.error_message = "smtp",
                                      !.send_attempts = @ + 1]
      [] out = "exception" -> [e EXCEPT !.status = "failed", !.error_message = "exception",
                                        !.send_attempts = @ + 1]

\* main.py:323-327, 338-342, 353 the status string send_single_email_task returns
ResultOf(out) ==
    CASE out = "success" -> "success"
      [] out = "failure" -> "failed"
      [] out = "exception" -> "error"

\* main.py:1326 the results after which the handler updates the statistics
UpdatesStatistics(res) == res \in {"success", "failed"}

\* main.py:291-321, 331-334, 345-348 record the outcome and commit; after a
\* successful send the row is first marked in the sheet, and an exception
\* of that call is caught and logged (316-317)
CommitResult(w) ==
    /\ wrk[w].pc = "commit"
    /\ \E marked \in IF wrk[w].out = "success" THEN BOOLEAN ELSE {FALSE} :
       LET new == Outcome(wrk[w].e, wrk[w].out, marked)
           res == ResultOf(wrk[w].out)
       IN /\ email_sends' = [email_sends EXCEPT ![wrk[w].id] = Flush(@, Dirty(wrk[w].e, new))]
          /\ wrk' = [wrk EXCEPT ![w] =
                        IF UpdatesStatistics(res)
                        THEN [@ EXCEPT !.pc = "stats", !.result = res, !.e = NewEmailSend,
                                       !.out = "none"]
                        ELSE Finished(res, "sending")]
    /\ UNCHANGED <<sheet, campaign, tasks, deliveries, req, stp, stops, transport, policy, updates, clock, sched, probe, queue>>

\* main.py:1339-1341 the campaign is complete when nothing is pending
CheckComplete(n) ==
    IF n.emails_pending = 0 THEN [n EXCEPT !.status = "completed"] ELSE n

\* main.py:1328-1341 new session: load the row and its campaign, count
StatsCount(w) ==
    /\ wrk[w].pc = "stats"
    /\ wrk' = [wrk EXCEPT ![w] = [@ EXCEPT !.pc = "stats_commit", !.upd =
                   Dirty(campaign, CheckComplete(update_statistics(campaign, email_sends)))]]
    /\ UNCHANGED <<sheet, campaign, email_sends, tasks, deliveries, req, stp, stops, transport, policy, updates, clock, sched, probe, queue>>

\* main.py:1344-1352 commit the statistics, return the result
StatsCommit(w) ==
    /\ wrk[w].pc = "stats_commit"
    /\ campaign' = Flush(campaign, wrk[w].upd)
    /\ wrk' = [wrk EXCEPT ![w] = Finished(@.result, "sending")]
    /\ UNCHANGED <<sheet, email_sends, tasks, deliveries, req, stp, stops, transport, policy, updates, clock, sched, probe, queue>>

\* The server instance dies while the handler runs: the session and its
\* uncommitted changes are lost, the queue still holds the task.
Crash(w) ==
    /\ wrk[w].pc # "idle"
    /\ wrk' = [wrk EXCEPT ![w] = Finished("crashed", "none")]
    /\ UNCHANGED <<sheet, campaign, email_sends, tasks, deliveries, req, stp, stops, transport, policy, updates, clock, sched, probe, queue>>

\* -------------------------------------------------- create_campaign_tasks
\* A draw that may exceed the upper limit.
RandIntMut(a, b) == a..(b + 1)

\* random.randint(a, b): the integers a..b; the call raises when a > b
RandInt(a, b) == a..b

\* main.py:470-474 start_campaign_with_cloud_tasks calls create_campaign_tasks
\* for n EmailSend ids; task_service.py:150-151
CallFromStart ==
    /\ sched.pc = "idle"
    /\ \E n \in 1..MaxRecipients :
          sched' = [IdleSched EXCEPT !.pc = "compute", !.caller = "start",
                                     !.args = StartArgs(policy), !.n = n, !.i = 1,
                                     !.now = clock, !.current_schedule_time = clock]
    /\ UNCHANGED <<sheet, campaign, email_sends, tasks, deliveries, req, wrk, stp, stops,
                   transport, policy, updates, clock, probe, queue>>

\* task_service.py:123-151 create_campaign_tasks called with every parameter
\* of the campaign's policy
CallWithPolicy ==
    /\ sched.pc = "idle"
    /\ \E n \in 1..MaxRecipients :
          sched' = [IdleSched EXCEPT !.pc = "compute", !.caller = "policy",
                                     !.args = policy, !.n = n, !.i = 1,
                                     !.now = clock, !.current_schedule_time = clock]
    /\ UNCHANGED <<sheet, campaign, email_sends, tasks, deliveries, req, wrk, stp, stops,
                   transport, policy, updates, clock, probe, queue>>

\* An adjustment that is made whether or not the candidate is in the window.
AdjustedMut(a, candidate) ==
    IF a.respect_business_hours
    THEN calculate_next_business_hour(a, candidate)
    ELSE candidate

\* task_service.py:164-190 the candidate of this iteration and the dispatch
\* instant it is adjusted to
Adjusted(a, candidate) ==
    IF a.respect_business_hours /\ ~is_within_business_hours(a, candidate)
    THEN calculate_next_business_hour(a, candidate)
    ELSE candidate

\* task_service.py:193-194 int(total_seconds() / 60), not below 0
DelayFromNow(instant, utcnow) ==
    IF instant <= utcnow THEN 0 ELSE (instant - utcnow) \div Minute

\* task_service.py:162-194 one iteration up to delay_minutes: the first
\* recipient gets no delay, every other one random.randint(min, max) minutes
\* after the previous instant; randint raises when min > max and the
\* exception leaves create_campaign_tasks.  The clock is read at 193.
ComputeInstant ==
    /\ sched.pc = "compute"
    /\ LET a == sched.args
       IN IF sched.i > 1 /\ RandInt(a.delay_min_minutes, a.delay_max_minutes) = {}
          THEN /\ sched' = [sched EXCEPT !.pc = "raised"]
               /\ UNCHANGED clock
          ELSE \E email_delay \in IF sched.i = 1 THEN {0}
                                  ELSE RandInt(a.delay_min_minutes, a.delay_max_minutes),
                  elapsed \in 0..MaxElapsed :
                  LET candidate == sched.current_schedule_time + email_delay * Minute
                      instant == Adjusted(a, candidate)
                  IN /\ clock' = clock + elapsed
                     /\ sched' = [sched EXCEPT !.pc = "create",
                                     !.current_schedule_time = instant,
                                     !.t = Append(@, instant),
                                     !.raw = Append(@, candidate),
                                     !.delay_minutes = DelayFromNow(instant, clock')]
    /\ UNCHANGED <<sheet, campaign, email_sends, tasks, deliveries, req, wrk, stp, stops,
                   transport, policy, updates, probe, queue>>

\* task_service.py:101-107 schedule_time = utcnow() + delay_minutes when
\* delay_minutes > 0; without schedule_time the queue may dispatch at once
NotBefore(delay_minutes, utcnow) ==
    IF delay_minutes > 0 THEN utcnow + delay_minutes * Minute ELSE utcnow

\* task_service.py:197 f"email-{email_send_id}-{int(utcnow().timestamp())}":
\* the id of the row and the second in which the name is made
TaskName(email_send_id, utcnow) == <<email_send_id, utcnow>>

\* task_service.py:196-220 with 68-121: create the task under its name (a
\* failure is logged and the loop continues; the queue refuses a name it
\* already holds); after the last id the list is returned.  The ids of the
\* call are 1..n.
CreateTask ==
    /\ sched.pc = "create"
    /\ \E elapsed \in 0..MaxElapsed, ok \in BOOLEAN :
          LET task_name == TaskName(sched.i, clock)
              created == ok /\ task_name \notin queue
          IN /\ clock' = clock + elapsed
             /\ queue' = IF created THEN queue \cup {task_name} ELSE queue
             /\ sched' = [sched EXCEPT !.pc = IF sched.i = sched.n THEN "done" ELSE "compute",
                                       !.i = @ + 1,
                                       !.delay_minutes = 0,
                                       !.not_before = Append(@,
                                           IF created THEN NotBefore(sched.delay_minutes, clock')
                                           ELSE -1)]
    /\ UNCHANGED <<sheet, campaign, email_sends, tasks, deliveries, req, wrk, stp, stops,
                   transport, policy, updates, probe>>

\* task_service.py:123-151 create_campaign_tasks is called once more for the
\* same email_send_ids (the enqueue is retried)
CallAgain ==
    /\ sched.pc = "done"
    /\ sched.calls < MaxCalls
    /\ sched' = [IdleSched EXCEPT !.pc = "compute", !.caller = sched.caller,
                                  !.args = sched.args, !.n = sched.n, !.i = 1,
                                  !.now = clock, !.current_schedule_time = clock,
                                  !.calls = sched.calls + 1]
    /\ UNCHANGED <<sheet, campaign, email_sends, tasks, deliveries, req, wrk, stp, stops,
                   transport, policy, updates, clock, probe, queue>>

\* ------------------------------------------------------- delete_campaign
\* main.py:908-929 a campaign that is not SENDING is deleted, and its
\* email_sends rows with it (models.py:117 cascade); the tasks in the queue
\* stay.  The status "deleted" stands for the missing row.
delete_campaign ==
    /\ campaign.status \notin {"none", "deleted", "sending"}
    /\ campaign' = [NoCampaign EXCEPT !.status = "deleted"]
    /\ email_sends' = <<>>
    /\ UNCHANGED <<sheet, tasks, deliveries, req, wrk, stp, stops, transport, policy, updates,
                   clock, sched, probe, queue>>

\* ------------------------------------------------------ stuck campaigns
\* fix_stuck_campaign.py:23-47 (reset_stuck_campaigns.py:31-60 with an age
\* test as well): a campaign that is SENDING with emails_sent = 0 is set
\* back to DRAFT and committed; its email_sends rows and its tasks are not
\* touched.  A run that finds no such campaign changes nothing.
fix_stuck_campaigns ==
    /\ campaign.status = "sending"
    /\ campaign.emails_sent = 0
    /\ campaign' = [campaign EXCEPT !.status = "draft"]
    /\ UNCHANGED <<sheet, email_sends, tasks, deliveries, req, wrk, stp, stops, transport,
                   policy, updates, clock, sched, probe, queue>>

\* --------------------------------------------------------- business hours
\* business_hours.py:13-52 is_within_business_hours(..., current_time) is
\* called for the instant of the clock
CheckWithin ==
    /\ probe.pc = "idle"
    /\ probe' = [probe EXCEPT !.pc = "checked", !.current_time = clock,
                              !.within = is_within_business_hours(policy, clock)]
    /\ UNCHANGED <<sheet, campaign, email_sends, tasks, deliveries, req, wrk, stp, stops,
                   transport, policy, updates, clock, sched, queue>>

\* business_hours.py:55-131 calculate_next_business_hour(..., current_time)
\* is called for the same instant
FindNext ==
    /\ probe.pc = "checked"
    /\ probe' = [probe EXCEPT !.pc = "found",
                              !.next = calculate_next_business_hour(policy, clock)]
    /\ UNCHANGED <<sheet, campaign, email_sends, tasks, deliveries, req, wrk, stp, stops,
                   transport, policy, updates, clock, sched, queue>>

\* business_hours.py:36-42, 78-83 both functions are called for the same
\* instant and window with a campaign_timezone that pytz does not know
CheckUnknownZone ==
    /\ probe.pc = "found"
    /\ LET a == [policy EXCEPT !.timezone = UnknownZone]
       IN probe' = [probe EXCEPT !.pc = "fallback",
                                 !.unknown_within = is_within_business_hours(a, probe.current_time),
                                 !.unknown_next = calculate_next_business_hour(a, probe.current_time)]
    /\ UNCHANGED <<sheet, campaign, email_sends, tasks, deliveries, req, wrk, stp, stops,
                   transport, policy, updates, clock, sched, queue>>

\* business_hours.py:73-89 calculate_next_business_hour is entered for the
\* instant of the clock: the search starts a minute later, in local time
SearchStart ==
    /\ probe.pc = "idle"
    /\ probe' = [probe EXCEPT !.pc = "search", !.current_time = clock,
                              !.check_time = LocalTime(policy.timezone, clock) + Minute,
                              !.left = LookAhead]
    /\ UNCHANGED <<sheet, campaign, email_sends, tasks, deliveries, req, wrk, stp, stops,
                   transport, policy, updates, clock, sched, queue>>

\* business_hours.py:89-128 one iteration of the loop: return the instant
\* in UTC, or move check_time on
SearchIterate ==
    /\ probe.pc = "search"
    /\ probe.left > 0
    /\ probe' = IF SearchHit(policy, probe.check_time)
                THEN [probe EXCEPT !.pc = "found", !.next = ToUtc(policy, probe.check_time)]
                ELSE [probe EXCEPT !.check_time = SearchNext(policy, probe.check_time),
                                   !.left = @ - 1]
    /\ UNCHANGED <<sheet, campaign, email_sends, tasks, deliveries, req, wrk, stp, stops,
                   transport, policy, updates, clock, sched, queue>>

\* business_hours.py:130-131 the loop has run 7 * 24 * 60 times: the
\* function returns current_time + 1 hour, a datetime like any other (what
\* the caller is told besides the instant, degraded, stays as it was)
SearchExhausted ==
    /\ probe.pc = "search"
    /\ probe.left = 0
    /\ probe' = [probe EXCEPT !.pc = "found", !.next = Fallback(probe.current_time)]
    /\ UNCHANGED <<sheet, campaign, email_sends, tasks, deliveries, req, wrk, stp, stops,
                   transport, policy, updates, clock, sched, queue>>

\* ---------------------------------------------------------- specification
\* Spec: one 'send campaign' request, 'stop campaign', and the Send Workers
\* that the queue invokes for the tasks of the campaign.
Next ==
    \/ create_campaign
    \/ \E q \in {1} : SendLoad(q)
    \/ \E q \in {1} : SendCommit(q)
    \/ \E q \in {1} : StartLoad(q)
    \/ \E q \in {1} : StartMarkSending(q)
    \/ \E q \in {1} : StartReadSheet(q)
    \/ \E q \in {1} : StartSheetFailed(q)
    \/ \E q \in {1} : StartUnexpected(q)
    \/ \E q \in {1} : StartSetTotal(q)
    \/ \E q \in {1} : StartMaterialize(q)
    \/ \E q \in {1} : StartTasksService(q)
    \/ \E q \in {1} : StartEnqueue(q)
    \/ \E q \in {1} : StartCount(q)
    \/ \E q \in {1} : StartFinish(q)
    \/ StopLoad
    \/ StopCommit
    \/ \E w \in Workers, id \in tasks : Deliver(w, id)
    \/ \E w \in Workers : LoadRecord(w)
    \/ \E w \in Workers : LoadCampaign(w)
    \/ \E w \in Workers : CommitSkipped(w)
    \/ \E w \in Workers : SendEmail(w)
    \/ \E w \in Workers : CommitResult(w)
    \/ \E w \in Workers : StatsCount(w)
    \/ \E w \in Workers : StatsCommit(w)
    \/ \E w \in Workers : Crash(w)

Spec == Init /\ [][Next]_vars

\* SpecSeq: as Spec, but the queue delivers a task only when no handler is
\* running (sequential redelivery).
DeliverSeq(w, id) ==
    /\ \A v \in Workers : wrk[v].pc = "idle"
    /\ Deliver(w, id)

NextSeq ==
    \/ create_campaign
    \/ \E q \in {1} : SendLoad(q)
    \/ \E q \in {1} : SendCommit(q)
    \/ \E q \in {1} : StartLoad(q)
    \/ \E q \in {1} : StartMarkSending(q)
    \/ \E q \in {1} : StartReadSheet(q)
    \/ \E q \in {1} : StartSheetFailed(q)
    \/ \E q \in {1} : StartUnexpected(q)
    \/ \E q \in {1} : StartSetTotal(q)
    \/ \E q \in {1} : StartMaterialize(q)
    \/ \E q \in {1} : StartTasksService(q)
    \/ \E q \in {1} : StartEnqueue(q)
    \/ \E q \in {1} : StartCount(q)
    \/ \E q \in {1} : StartFinish(q)
    \/ StopLoad
    \/ StopCommit
    \/ \E w \in Workers, id \in tasks : DeliverSeq(w, id)
    \/ \E w \in Workers : LoadRecord(w)
    \/ \E w \in Workers : LoadCampaign(w)
    \/ \E w \in Workers : CommitSkipped(w)
    \/ \E w \in Workers : SendEmail(w)
    \/ \E w \in Workers : CommitResult(w)
    \/ \E w \in Workers : StatsCount(w)
    \/ \E w \in Workers : StatsCommit(w)
    \/ \E w \in Workers : Crash(w)

SpecSeq == Init /\ [][NextSeq]_vars

\* SpecSend: concurrent 'send campaign' requests and 'stop campaign'; no task
\* is delivered.
NextSend ==
    \/ create_campaign
    \/ \E q \in Requests : SendLoad(q)
    \/ \E q \in Requests : SendCommit(q)
    \/ \E q \in Requests : StartLoad(q)
    \/ \E q \in Requests : StartMarkSending(q)
    \/ \E q \in Requests : StartReadSheet(q)
    \/ \E q \in Requests : StartSheetFailed(q)
    \/ \E q \in Requests : StartUnexpected(q)
    \/ \E q \in Requests : StartSetTotal(q)
    \/ \E q \in Requests : StartMaterialize(q)
    \/ \E q \in Requests : StartTasksService(q)
    \/ \E q \in Requests : StartEnqueue(q)
    \/ \E q \in Requests : StartCount(q)
    \/ \E q \in Requests : StartFinish(q)
    \/ StopLoad
    \/ StopCommit

SpecSend == Init /\ [][NextSend]_vars

\* SpecLive: one 'send campaign' request and the Send Workers, with a queue
\* that goes on delivering, one at a time, the tasks whose rows are still
\* PENDING; no instance dies, every step that can be taken is taken.
DeliverLive(w, id) ==
    /\ \A v \in Workers : wrk[v].pc = "idle"
    /\ w = 1
    /\ id \in tasks
    /\ email_sends[id].status = "pending"
    /\ wrk' = [wrk EXCEPT ![w] = [IdleWrk EXCEPT !.pc = "load", !.id = id,
                                     !.startPending = TRUE,
                                     !.startCancelled = (campaign.status = "cancelled")]]
    /\ UNCHANGED <<sheet, campaign, email_sends, tasks, deliveries, req, stp, stops, transport,
                   policy, updates, clock, sched, probe, queue>>

NextLive ==
    \/ create_campaign
    \/ \E q \in {1} : SendLoad(q)
    \/ \E q \in {1} : SendCommit(q)
    \/ \E q \in {1} : StartLoad(q)
    \/ \E q \in {1} : StartMarkSending(q)
    \/ \E q \in {1} : StartReadSheet(q)
    \/ \E q \in {1} : StartSheetFailed(q)
    \/ \E q \in {1} : StartUnexpected(q)
    \/ \E q \in {1} : StartSetTotal(q)
    \/ \E q \in {1} : StartMaterialize(q)
    \/ \E q \in {1} : StartTasksService(q)
    \/ \E q \in {1} : StartEnqueue(q)
    \/ \E q \in {1} : StartCount(q)
    \/ \E q \in {1} : StartFinish(q)
    \/ \E w \in Workers, id \in tasks : DeliverLive(w, id)
    \/ \E w \in Workers : LoadRecord(w)
    \/ \E w \in Workers : LoadCampaign(w)
    \/ \E w \in Workers : SendEmail(w)
    \/ \E w \in Workers : CommitResult(w)
    \/ \E w \in Workers : StatsCount(w)
    \/ \E w \in Workers : StatsCommit(w)

SpecLive == Init /\ [][NextLive]_vars /\ WF_vars(NextLive)

\* SpecBoth: concurrent 'send campaign' requests and the Send Workers, which
\* the queue invokes one at a time; no instance dies.
NextBoth ==
    \/ create_campaign
    \/ \E q \in Requests : SendLoad(q)
    \/ \E q \in Requests : SendCommit(q)
    \/ \E q \in Requests : StartLoad(q)
    \/ \E q \in Requests : StartMarkSending(q)
    \/ \E q \in Requests : StartReadSheet(q)
    \/ \E q \in Requests : StartSheetFailed(q)
    \/ \E q \in Requests : StartUnexpected(q)
    \/ \E q \in Requests : StartSetTotal(q)
    \/ \E q \in Requests : StartMaterialize(q)
    \/ \E q \in Requests : StartTasksService(q)
    \/ \E q \in Requests : StartEnqueue(q)
    \/ \E q \in Requests : StartCount(q)
    \/ \E q \in Requests : StartFinish(q)
    \/ \E w \in Workers, id \in tasks : DeliverSeq(w, id)
    \/ \E w \in Workers : LoadRecord(w)
    \/ \E w \in Workers : LoadCampaign(w)
    \/ \E w \in Workers : SendEmail(w)
    \/ \E w \in Workers : CommitResult(w)
    \/ \E w \in Workers : StatsCount(w)
    \/ \E w \in Workers : StatsCommit(w)

SpecBoth == Init /\ [][NextBoth]_vars

\* SpecReset: 'send campaign' requests made one after the other and the
\* script that resets a stuck campaign; no task is delivered.
SendLoadSeq(q) ==
    /\ \A p \in Requests : p < q => req[p].pc = "done"
    /\ SendLoad(q)

NextReset ==
    \/ create_campaign
    \/ \E q \in Requests : SendLoadSeq(q)
    \/ \E q \in Requests : SendCommit(q)
    \/ \E q \in Requests : StartLoad(q)
    \/ \E q \in Requests : StartMarkSending(q)
    \/ \E q \in Requests : StartReadSheet(q)
    \/ \E q \in Requests : StartSheetFailed(q)
    \/ \E q \in Requests : StartUnexpected(q)
    \/ \E q \in Requests : StartSetTotal(q)
    \/ \E q \in Requests : StartMaterialize(q)
    \/ \E q \in Requests : StartTasksService(q)
    \/ \E q \in Requests : StartEnqueue(q)
    \/ \E q \in Requests : StartCount(q)
    \/ \E q \in Requests : StartFinish(q)
    \/ fix_stuck_campaigns

SpecReset == Init /\ [][NextReset]_vars

\* SpecGate: 'send campaign' requests made one after the other, 'stop
\* campaign', and the Send Workers, which the queue invokes one at a time.
NextGate ==
    \/ create_campaign
    \/ \E q \in Requests : SendLoadSeq(q)
    \/ \E q \in Requests : SendCommit(q)
    \/ \E q \in Requests : StartLoad(q)
    \/ \E q \in Requests : StartMarkSending(q)
    \/ \E q \in Requests : StartReadSheet(q)
    \/ \E q \in Requests : StartSheetFailed(q)
    \/ \E q \in Requests : StartUnexpected(q)
    \/ \E q \in Requests : StartSetTotal(q)
    \/ \E q \in Requests : StartMaterialize(q)
    \/ \E q \in Requests : StartTasksService(q)
    \/ \E q \in Requests : StartEnqueue(q)
    \/ \E q \in Requests : StartCount(q)
    \/ \E q \in Requests : StartFinish(q)
    \/ StopLoad
    \/ StopCommit
    \/ \E w \in Workers, id \in tasks : DeliverSeq(w, id)
    \/ \E w \in Workers : LoadRecord(w)
    \/ \E w \in Workers : LoadCampaign(w)
    \/ \E w \in Workers : CommitSkipped(w)
    \/ \E w \in Workers : SendEmail(w)
    \/ \E w \in Workers : CommitResult(w)
    \/ \E w \in Workers : StatsCount(w)
    \/ \E w \in Workers : StatsCommit(w)

SpecGate == Init /\ [][NextGate]_vars

\* SpecDelete: one 'send campaign' request, 'stop campaign', the Send
\* Workers, which the queue invokes one at a time, and 'delete campaign',
\* made while no request is running and no handler has passed its checks.
DeleteBeforeSend ==
    /\ \A q \in Requests : req[q].pc \in {"idle", "done"}
    /\ stp.pc = "idle"
    /\ \A w \in Workers : wrk[w].pc \in {"idle", "load", "load_campaign"}
    /\ delete_campaign

NextDelete ==
    \/ create_campaign
    \/ \E q \in {1} : SendLoad(q)
    \/ \E q \in {1} : SendCommit(q)
    \/ \E q \in {1} : StartLoad(q)
    \/ \E q \in {1} : StartMarkSending(q)
    \/ \E q \in {1} : StartReadSheet(q)
    \/ \E q \in {1} : StartSheetFailed(q)
    \/ \E q \in {1} : StartUnexpected(q)
    \/ \E q \in {1} : StartSetTotal(q)
    \/ \E q \in {1} : StartMaterialize(q)
    \/ \E q \in {1} : StartTasksService(q)
    \/ \E q \in {1} : StartEnqueue(q)
    \/ \E q \in {1} : StartCount(q)
    \/ \E q \in {1} : StartFinish(q)
    \/ StopLoad
    \/ StopCommit
    \/ DeleteBeforeSend
    \/ \E w \in Workers, id \in tasks : DeliverSeq(w, id)
    \/ \E w \in Workers : LoadRecord(w)
    \/ \E w \in Workers : LoadCampaign(w)
    \/ \E w \in Workers : CommitSkipped(w)
    \/ \E w \in Workers : SendEmail(w)
    \/ \E w \in Workers : CommitResult(w)
    \/ \E w \in Workers : StatsCount(w)
    \/ \E w \in Workers : StatsCommit(w)

SpecDelete == Init /\ [][NextDelete]_vars

\* SpecStart: one 'send campaign' request, which the death of its server
\* instance may end at any point; no task is delivered.
NextStart ==
    \/ create_campaign
    \/ \E q \in {1} : SendLoad(q)
    \/ \E q \in {1} : SendCommit(q)
    \/ \E q \in {1} : StartLoad(q)
    \/ \E q \in {1} : StartMarkSending(q)
    \/ \E q \in {1} : StartReadSheet(q)
    \/ \E q \in {1} : StartSheetFailed(q)
    \/ \E q \in {1} : StartUnexpected(q)
    \/ \E q \in {1} : StartSetTotal(q)
    \/ \E q \in {1} : StartMaterialize(q)
    \/ \E q \in {1} : StartTasksService(q)
    \/ \E q \in {1} : StartEnqueue(q)
    \/ \E q \in {1} : StartCount(q)
    \/ \E q \in {1} : StartFinish(q)
    \/ \E q \in {1} : StartCrash(q)

SpecStart == Init /\ [][NextStart]_vars

\* SpecPolicy: one 'send campaign' request for a campaign whose delays may
\* have been changed by 'update campaign'; no task is delivered.
NextPolicy ==
    \/ create_campaign
    \/ update_campaign
    \/ \E q \in {1} : SendLoad(q)
    \/ \E q \in {1} : SendCommit(q)
    \/ \E q \in {1} : StartLoad(q)
    \/ \E q \in {1} : StartMarkSending(q)
    \/ \E q \in {1} : StartReadSheet(q)
    \/ \E q \in {1} : StartSheetFailed(q)
    \/ \E q \in {1} : StartUnexpected(q)
    \/ \E q \in {1} : StartSetTotal(q)
    \/ \E q \in {1} : StartMaterialize(q)
    \/ \E q \in {1} : StartTasksService(q)
    \/ \E q \in {1} : StartEnqueue(q)
    \/ \E q \in {1} : StartCount(q)
    \/ \E q \in {1} : StartFinish(q)

SpecPolicy == Init /\ [][NextPolicy]_vars

\* SpecSchedule: create_campaign_tasks for a campaign with any of the
\* policies, started at any of the instants; the store is not touched.
InitSchedule ==
    /\ sheet = [r \in 1..MaxRows |-> TRUE]
    /\ InitStore
    /\ policy \in Policies
    /\ \E local \in LocalInstants(policy) : clock = local - policy.timezone * Hour

NextSchedule ==
    \/ CallFromStart
    \/ CallWithPolicy
    \/ ComputeInstant
    \/ CreateTask

SpecSchedule == InitSchedule /\ [][NextSchedule]_vars

\* SpecQueue: create_campaign_tasks for the default policy, and the same
\* call made again for the same ids.
InitQueue ==
    /\ sheet = [r \in 1..MaxRows |-> TRUE]
    /\ InitStore
    /\ policy = DefaultPolicy
    /\ clock \in LocalInstants(policy)

NextQueue ==
    \/ CallFromStart
    \/ ComputeInstant
    \/ CreateTask
    \/ CallAgain

SpecQueue == InitQueue /\ [][NextQueue]_vars


\* SpecWindow: the two business-hours functions applied to any of the
\* instants under any of the policies (all of which have start < end).
NextWindow ==
    \/ CheckWithin
    \/ FindNext
    \/ CheckUnknownZone

SpecWindow == InitSchedule /\ [][NextWindow]_vars

\* SpecSearch: the loop of calculate_next_business_hour, iteration by
\* iteration, for windows that open on no hour (start >= end, which
\* 'update campaign' stores unchecked, schemas.py:107-108) and for one that
\* does.
SearchWindows == {<<17, 9>>, <<9, 9>>, <<9, 17>>}

InitSearch ==
    /\ sheet = [r \in 1..MaxRows |-> TRUE]
    /\ InitStore
    /\ \E h \in SearchWindows, w \in BOOLEAN :
          policy = [DefaultPolicy EXCEPT !.respect_business_hours = TRUE,
                                         !.business_hours_start = h[1],
                                         !.business_hours_end = h[2],
                                         !.business_days_only = w]
    /\ clock \in LocalInstants(policy)

NextSearch ==
    \/ SearchStart
    \/ SearchIterate
    \/ SearchExhausted

SpecSearch == InitSearch /\ [][NextSearch]_vars

\* ------------------------------------------------------------------ claims
\* The positions of a Send Worker after email_service.send_email was called.
PastTransport == {"commit", "stats", "stats_commit"}

\* The invocation of worker w returns a result to the queue in this step.
Returns(w) ==
    /\ wrk[w].pc \in {"commit", "stats_commit"}
    /\ wrk'[w].pc = "idle"
    /\ wrk'[w].result \in {"success", "failed", "error"}

\* C1: under sequential redelivery of a task, crashes of the worker included,
\* the mail transport is invoked at most once for any one EmailSend row.
C1_AtMostOnceSequential ==
    \A id \in DOMAIN transport : transport[id] <= 1

\* C2: two overlapping Send Worker invocations for the same EmailSend row
\* never both invoke the mail transport.
C2_AtMostOnceOverlapping ==
    \A v, w \in Workers :
        (v # w /\ wrk[v].pc \in PastTransport /\ wrk[w].pc \in PastTransport)
            => wrk[v].id # wrk[w].id

\* C3: the status of an EmailSend row changes only from PENDING, and only to
\* SENT, FAILED or SKIPPED; a SENT, FAILED or SKIPPED row keeps its status.
C3_RecordTransitions ==
    [][\A id \in DOMAIN email_sends :
          email_sends'[id].status # email_sends[id].status
              => /\ email_sends[id].status = "pending"
                 /\ email_sends'[id].status \in {"sent", "failed", "skipped"}]_vars

\* C4: a Send Worker invoked for a row that is not PENDING does nothing but
\* return 'skipped': its only step ends the invocation with the result
\* 'skipped' (or the instance dies), the transport is not called, and the
\* row and the campaign are left as they were.  Holds for sequential
\* redelivery (SpecSeq) and for overlapping invocations (Spec).
C4_NonPendingIsNoOp ==
    [][\A w \in Workers :
          (wrk[w].pc # "idle" /\ ~wrk[w].startPending /\ wrk'[w] # wrk[w])
              => /\ wrk[w].pc = "load"
                 /\ wrk'[w].pc = "idle"
                 /\ wrk'[w].result \in {"skipped", "crashed"}
                 /\ wrk'[w].result = "skipped" => wrk'[w].message = "status"
                 /\ email_sends' = email_sends
                 /\ campaign' = campaign
                 /\ transport' = transport]_vars

\* A worker invoked for a row that was no longer PENDING has returned
\* 'skipped' because of the row's status.
C4_Witness ==
    \E w \in Workers :
        /\ wrk[w].pc = "idle"
        /\ wrk[w].result = "skipped"
        /\ wrk[w].message = "status"
        /\ \E id \in DOMAIN email_sends : email_sends[id].status \in {"sent", "failed", "skipped"}

\* C5: a Send Worker invocation that starts on a PENDING row after the
\* campaign was set to CANCELLED never invokes the mail transport.
C5_CancelledNeverSends ==
    \A w \in Workers :
        (wrk[w].startCancelled /\ wrk[w].startPending) => wrk[w].pc \notin PastTransport

\* C6: a campaign that is COMPLETED, FAILED or CANCELLED keeps its status
\* under send, start, the Send Worker handler and stop.
C6_CampaignMonotonic ==
    [][campaign.status \in {"completed", "failed", "cancelled"}
          => campaign'.status = campaign.status]_vars

\* The 'send campaign' request q has passed the DRAFT/SCHEDULED gate,
\* materialized EmailSend rows and enqueued a task.
Scheduled(q) == req[q].scheduled > 0 /\ req[q].created > 0

\* C7: of the 'send campaign' requests for the campaign at most one passes
\* the DRAFT/SCHEDULED gate, materializes rows and enqueues tasks.
C7_SingleScheduler ==
    \A p, q \in Requests : (Scheduled(p) /\ Scheduled(q)) => p = q

\* C8: when a Send Worker invocation returns after processing a row (sent,
\* failure result or exception) and no row is PENDING any more, the campaign
\* is COMPLETED.
C8_LastPendingCompletes ==
    [][\A w \in Workers :
          (Returns(w) /\ CountStatus(email_sends', "pending") = 0)
              => campaign'.status = "completed"]_vars

\* C9: when a Send Worker invocation returns after moving a row from PENDING
\* to SENT or FAILED, the stored emails_sent, emails_failed and
\* emails_pending equal the numbers of SENT, FAILED and PENDING rows.
C9_CountersRecomputed ==
    [][\A w \in Workers :
          Returns(w)
              => /\ campaign'.emails_sent = CountStatus(email_sends', "sent")
                 /\ campaign'.emails_failed = CountStatus(email_sends', "failed")
                 /\ campaign'.emails_pending = CountStatus(email_sends', "pending")]_vars

\* C10: in every state of an existing campaign total_recipients equals
\* emails_sent + emails_failed + emails_pending + the number of SKIPPED rows.
C10_CounterIdentity ==
    campaign.status # "none"
        => campaign.total_recipients =
              campaign.emails_sent + campaign.emails_failed + campaign.emails_pending
                  + CountStatus(email_sends, "skipped")

\* The recipients for which a dispatch instant has been computed, and those
\* with a task in the queue.
Computed == 1..Len(sched.t)
Enqueued == {k \in 1..Len(sched.not_before) : sched.not_before[k] # -1}

\* C11: create_campaign_tasks computes one dispatch instant per recipient,
\* N in all when it returns, and the instants are non-decreasing; with
\* delay_min_minutes <= delay_max_minutes it always returns.
C11_ExactlyNNonDecreasing ==
    /\ Len(sched.t) <= sched.n
    /\ \A k \in Computed : k > 1 => sched.t[k - 1] <= sched.t[k]
    /\ sched.pc = "done" => Len(sched.t) = sched.n
    /\ sched.args.delay_min_minutes <= sched.args.delay_max_minutes => sched.pc # "raised"

\* A schedule for more than one recipient has been returned in which the
\* business hours moved the second instant.
C11_Witness ==
    /\ sched.pc = "done"
    /\ sched.n > 1
    /\ sched.args.respect_business_hours
    /\ sched.t[2] > sched.raw[2]

\* C12: with business hours disabled the first dispatch instant is the
\* instant of the call and every other one is a whole number of minutes in
\* delay_min_minutes..delay_max_minutes after the one before.
C12_DisabledExactDelays ==
    ~sched.args.respect_business_hours
        => \A k \in Computed :
              IF k = 1 THEN sched.t[1] = sched.now
              ELSE \E d \in sched.args.delay_min_minutes..sched.args.delay_max_minutes :
                      sched.t[k] - sched.t[k - 1] = d * Minute

\* A schedule without business hours for more than one recipient, with a
\* range of more than one delay, has been returned.
C12_Witness ==
    /\ sched.pc = "done"
    /\ sched.n > 1
    /\ ~sched.args.respect_business_hours
    /\ sched.args.delay_min_minutes < sched.args.delay_max_minutes
    /\ sched.t[2] - sched.t[1] = sched.args.delay_max_minutes * Minute

\* No instant from 'from' up to, not including, 'to' is in the window of a:
\* the window opens and closes on the hour.
ClosedBetween(a, from, to) ==
    /\ ~is_within_business_hours(a, from)
    /\ \A h \in (from \div Hour + 1)..((to - 1) \div Hour) :
          ~is_within_business_hours(a, h * Hour)

InWindow(p, local) ==
    \E day \in IF p.business_days_only THEN 0..4 ELSE 0..6 :
        /\ At(day, p.business_hours_start, 0, 0) <= local
        /\ local < At(day, p.business_hours_end, 0, 0)

\* C15: is_within_business_hours is true exactly from start:00 (included) to
\* end:00 (excluded) local time on a permitted day, and false on Saturday
\* and Sunday when only business days count.
C15_StartInclusiveEndExclusive ==
    probe.pc = "checked"
        => (probe.within <=> InWindow(policy, probe.current_time + policy.timezone * Hour))

\* The function was applied to end:00:00 local time of a Tuesday and
\* answered no.
C15_Witness ==
    /\ probe.pc = "checked"
    /\ probe.current_time + policy.timezone * Hour = At(1, policy.business_hours_end, 0, 0)
    /\ ~probe.within

C17_FirstInstant ==
    Len(sched.t) > 0
        => sched.t[1] = IF \/ ~sched.args.respect_business_hours
                           \/ is_within_business_hours(sched.args, sched.now)
                        THEN sched.now
                        ELSE calculate_next_business_hour(sched.args, sched.now)

\* A schedule with business hours was started inside the window.
C17_Witness ==
    /\ Len(sched.t) > 0
    /\ sched.args.respect_business_hours
    /\ is_within_business_hours(sched.args, sched.now)
    /\ sched.t[1] = sched.now

\* C18: when the campaign has respect_business_hours set, every task that
\* 'start campaign' enqueues has its not-before instant in the campaign's
\* window.
C18_StartAppliesBusinessHours ==
    (sched.caller = "start" /\ policy.respect_business_hours)
        => \A k \in Enqueued : is_within_business_hours(policy, sched.not_before[k])

\* C19: the not-before instant given to the queue for a task is never
\* earlier than the dispatch instant computed for it.
C19_NotBeforeAtLeastInstant ==
    \A k \in Enqueued : sched.not_before[k] >= sched.t[k]

\* C20: a 'send campaign' request that finds delay_min_minutes above
\* delay_max_minutes creates no EmailSend row and enqueues no task.
C20_InvalidDelayRejected ==
    \A q \in Requests :
        (/\ req[q].pc \in {"enqueue", "finish", "done"}
         /\ req[q].args.delay_min_minutes > req[q].args.delay_max_minutes)
            => req[q].scheduled = 0 /\ req[q].created = 0

\* The invocation of worker w records the outcome of its send in this step
\* (main.py:291-321, 331-334, 345-348).
Records(w, outs) ==
    /\ wrk[w].pc = "commit"
    /\ wrk[w].out \in outs
    /\ wrk'[w] # wrk[w]
    /\ wrk'[w].result # "crashed"

\* C27: when the transport succeeded the Send Worker leaves the row SENT
\* with send_attempts incremented by exactly one, whether or not the row
\* could be marked as sent in the sheet.  Checked for sequential redelivery
\* (SpecSeq); when two invocations for one row overlap, the second one adds
\* one to the count it loaded, not to the stored one (see C2).
C27_SuccessIsSent ==
    [][\A w \in Workers :
          Records(w, {"success"})
              => /\ email_sends'[wrk[w].id].status = "sent"
                 /\ email_sends'[wrk[w].id].send_attempts
                       = email_sends[wrk[w].id].send_attempts + 1]_vars

\* A row is SENT with one attempt although it could not be marked as sent in
\* the sheet.
C27_Witness ==
    \E id \in DOMAIN email_sends :
        /\ email_sends[id].status = "sent"
        /\ ~email_sends[id].marked_as_sent_in_sheet
        /\ email_sends[id].send_attempts = 1

\* C28: when the transport failed (failure result or exception) the Send
\* Worker leaves the row FAILED with the error stored and send_attempts
\* incremented by exactly one; no invocation calls the transport again after
\* its send, and no Send Worker step adds a task to the queue.  Checked for
\* sequential redelivery (SpecSeq), as C27.
C28_FailureIsFailed ==
    [][\A w \in Workers :
          /\ Records(w, {"failure", "exception"})
                => /\ email_sends'[wrk[w].id].status = "failed"
                   /\ email_sends'[wrk[w].id].error_message # "none"
                   /\ email_sends'[wrk[w].id].send_attempts
                         = email_sends[wrk[w].id].send_attempts + 1
                   /\ tasks' = tasks
          /\ wrk[w].pc \in PastTransport => wrk'[w].pc \in PastTransport \cup {"idle"}
          /\ wrk'[w].pc = "commit" /\ wrk[w].pc # "commit"
                => transport'[wrk'[w].id] = transport[wrk'[w].id] + 1]_vars

\* A send that raised an exception has left its row FAILED with one attempt,
\* the transport was called once for it and its task is the only one.
C28_Witness ==
    \E id \in DOMAIN email_sends :
        /\ email_sends[id].status = "failed"
        /\ email_sends[id].error_message = "exception"
        /\ email_sends[id].send_attempts = 1
        /\ transport[id] = 1

\* The 'send campaign' request q has returned (its instance did not die).
Returned(q) == req[q].pc = "done" /\ req[q].outcome # "crashed"

\* C21: when some but not all create_email_task calls fail, every id is still
\* tried: the request returns success with tasks_created = N - k and
\* emails_scheduled = N for N rows and k failures, the queue holds N - k
\* tasks and the campaign is SENDING, not FAILED.
C21_PartialEnqueue ==
    \A q \in Requests :
        (Returned(q) /\ 0 < req[q].failed /\ req[q].failed < req[q].scheduled)
            => /\ req[q].outcome = "success"
               /\ req[q].created = req[q].scheduled - req[q].failed
               /\ req[q].scheduled = Len(email_sends)
               /\ Cardinality(tasks) = req[q].created
               /\ campaign.status = "sending"

\* Of two tasks one could not be created and the request has returned.
C21_Witness ==
    \E q \in Requests :
        /\ Returned(q)
        /\ req[q].scheduled = 2
        /\ req[q].failed = 1
        /\ req[q].created = 1

\* C23: materialization inserts one PENDING EmailSend row for every row of
\* the sheet that is_valid and none for the other rows, and the
\* emails_scheduled the request reports is the number of rows inserted.
C23_OneRecordPerValidRow ==
    [][\A q \in Requests :
          (req[q].pc = "materialize" /\ req'[q].pc = "tasks_service")
              => /\ Len(email_sends') = Len(email_sends) + ValidEmails(sheet)
                 /\ \A id \in DOMAIN email_sends' \ DOMAIN email_sends :
                       email_sends'[id] = NewEmailSend
                 /\ \A id \in DOMAIN email_sends : email_sends'[id] = email_sends[id]
                 /\ req'[q].scheduled = ValidEmails(sheet)
                 /\ Len(req'[q].ids) = ValidEmails(sheet)]_vars

\* A sheet with a valid and an invalid row has been materialized: one row
\* was inserted and one email is reported as scheduled.
C23_Witness ==
    \E q \in Requests :
        /\ Returned(q)
        /\ req[q].outcome = "success"
        /\ ValidEmails(sheet) = 1
        /\ Len(sheet) = 2
        /\ req[q].scheduled = 1
        /\ Len(email_sends) = 1

\* C24: every task in the queue carries the id of a committed EmailSend row,
\* and a task is only added for a row that is already committed; when the
\* instance dies between materialization and enqueuing there are PENDING
\* rows without a task, never a task without a row.  (delete_campaign, which
\* removes the rows of a campaign, is not among the scheduler's operations.)
C24_RecordBeforeTask ==
    /\ tasks \subseteq DOMAIN email_sends
    /\ \A q \in Requests :
          req[q].pc = "enqueue" => \A j \in DOMAIN req[q].ids : req[q].ids[j] \in DOMAIN email_sends

\* The instance died after the rows were committed and before any task was
\* enqueued: the rows are PENDING and have no task.
C24_Witness ==
    \E q \in Requests :
        /\ req[q].pc = "done"
        /\ req[q].outcome = "crashed"
        /\ req[q].scheduled > 0
        /\ Len(email_sends) = req[q].scheduled
        /\ \A id \in DOMAIN email_sends : email_sends[id].status = "pending"
        /\ tasks = {}

\* C25: when the creation of the EmailSend rows fails partway, the request
\* ends with the campaign FAILED and none of the rows committed; the campaign
\* is not left SENDING.
C25_MaterializeFailureIsFailed ==
    [][\A q \in Requests :
          (req[q].pc = "materialize" /\ Returned(q)')
              => /\ campaign'.status = "failed"
                 /\ email_sends' = email_sends]_vars

\* C26: when reading the sheet fails, the request ends with the campaign
\* FAILED and returns an error; it has created no EmailSend row and no task.
C26_SourceFailure ==
    [][\A q \in Requests :
          (req[q].pc \in {"sheet_failed", "unexpected"} /\ Returned(q)')
              => /\ campaign'.status = "failed"
                 /\ req'[q].outcome = "error"
                 /\ req'[q].scheduled = 0
                 /\ req'[q].created = 0
                 /\ email_sends' = <<>>
                 /\ tasks' = {}]_vars

\* The sheet could not be read: the request has returned an error, the
\* campaign is FAILED with the total_recipients it was created with, and
\* there is neither a row nor a task although the sheet has a valid row.
C26_Witness ==
    \E q \in Requests :
        /\ Returned(q)
        /\ req[q].outcome = "error"
        /\ campaign.status = "failed"
        /\ ValidEmails(sheet) > 0
        /\ email_sends = <<>>
        /\ tasks = {}

\* C30: with a campaign_timezone that pytz does not know, neither function
\* raises: is_within_business_hours and calculate_next_business_hour return
\* what they return for the same instant and window with the timezone UTC.
C30_UnknownZoneIsUtc ==
    probe.pc = "fallback"
        => LET utc == [policy EXCEPT !.timezone = 0]
           IN /\ probe.unknown_within = is_within_business_hours(utc, probe.current_time)
              /\ probe.unknown_next = calculate_next_business_hour(utc, probe.current_time)
              /\ policy.timezone = 0
                    => /\ probe.unknown_within = probe.within
                       /\ probe.unknown_next = probe.next

\* Monday 07:00:30 UTC with the window 9-17: under the campaign's timezone
\* UTC+3 the instant is in the window, under a timezone that is not known it
\* is not, and the next business hour is 09:00:00 UTC.
C30_Witness ==
    /\ probe.pc = "fallback"
    /\ policy.timezone = 3
    /\ policy.business_hours_start = 9
    /\ probe.current_time = At(0, 7, 0, 30)
    /\ probe.within
    /\ ~probe.unknown_within
    /\ probe.unknown_next = At(0, 9, 0, 0)
    /\ probe.next # probe.unknown_next

\* C22: the name of a task is a function of the EmailSend row alone: two
\* create_email_task calls for the same row, whenever they are made, carry
\* the same name, so the queue, which refuses a name it holds, never has two
\* tasks for one row.
C22_OneLiveTaskPerRecord ==
    \A a \in queue : \A b \in queue : a[1] = b[1] => a = b

\* The window of the policy contains no hour.
NoWindow(p) == p.business_hours_start >= p.business_hours_end

\* C31: for a policy whose window contains no hour the search of
\* calculate_next_business_hour ends: after 7 * 24 * 60 iterations it gives
\* up and the function returns exactly current_time + 1 hour; it has
\* returned nothing else and never runs longer.
C31_FallbackAfterLookAhead ==
    NoWindow(policy)
        => /\ probe.left \in 0..LookAhead
           /\ probe.pc = "search" => probe.check_time > LocalTime(policy.timezone, probe.current_time)
           /\ probe.pc = "found"
                 => /\ probe.left = 0
                    /\ probe.next = probe.current_time + Hour

\* The search for the window 17-9 from Monday 08:59:30 has used up its
\* look-ahead and returned 09:59:30.
C31_Witness ==
    /\ probe.pc = "found"
    /\ policy.business_hours_start = 17
    /\ policy.business_hours_end = 9
    /\ probe.current_time = At(0, 8, 59, 30)
    /\ probe.left = 0
    /\ probe.next = At(0, 9, 59, 30)

\* C32: when calculate_next_business_hour returns current_time + 1 hour
\* because the look-ahead was used up, the caller is told that the instant
\* is a degraded one.
C32_FallbackIsFlagged ==
    (probe.pc = "found" /\ probe.left = 0) => probe.degraded

\* main.py:423-460 the rows of one start are inserted in sheet order, one
\* per valid row: the recipient of row id is its place among the valid rows
RecipientOf(id) == ((id - 1) % ValidEmails(sheet)) + 1

\* C33: the campaign has at most one EmailSend row per recipient, whatever
\* was done to it, a reset of the stuck campaign to DRAFT followed by a
\* second 'send campaign' included.
C33_OneRecordPerRecipient ==
    \A i \in DOMAIN email_sends : \A j \in DOMAIN email_sends :
        RecipientOf(i) = RecipientOf(j) => i = j

\* C34: once start_campaign_with_cloud_tasks has returned success, and the
\* queue delivers every task and every send_email call returns, the campaign
\* is COMPLETED at some later point, also when the sheet had no valid row
\* and when create_email_task failed for some or all rows.
C34_EventuallyCompleted ==
    (\E q \in Requests : Returned(q) /\ req[q].outcome = "success")
        ~> (campaign.status = "completed")

\* C35: whatever the interleaving of 'send campaign' requests, starts and
\* Send Workers, a campaign that is COMPLETED has no PENDING EmailSend row.
C35_CompletedHasNoPending ==
    campaign.status = "completed" => CountStatus(email_sends, "pending") = 0

\* C36: a 'send campaign' request that finds the campaign SENDING, COMPLETED,
\* FAILED or CANCELLED is rejected and changes nothing: the campaign row is
\* as it was, no EmailSend row is created and no task is enqueued.
C36_RejectedSendChangesNothing ==
    [][\A q \in Requests :
          (/\ req[q].pc = "idle"
           /\ req'[q] # req[q]
           /\ campaign.status \in {"sending", "completed", "failed", "cancelled"})
              => /\ req'[q].pc = "done"
                 /\ req'[q].outcome = "rejected"
                 /\ req'[q].scheduled = 0
                 /\ req'[q].created = 0
                 /\ campaign' = campaign
                 /\ email_sends' = email_sends
                 /\ tasks' = tasks]_vars

\* A second 'send campaign' request was rejected because the campaign was
\* COMPLETED.
C36_Witness ==
    \E q \in Requests :
        /\ req[q].pc = "done"
        /\ req[q].outcome = "rejected"
        /\ campaign.status = "completed"
        /\ Len(email_sends) = ValidEmails(sheet)

\* C38: 'stop campaign' sets the campaign to CANCELLED only when the status
\* it reads is SENDING or SCHEDULED; for any other status it returns an error
\* and leaves the campaign and its EmailSend rows as they are; in no case
\* does it change an EmailSend row or a task.  (A commit that lands after
\* another operation has changed the status is the subject of C6.)
C38_StopOnlySendingOrScheduled ==
    [][/\ stops' # stops
          => /\ campaign' = campaign
             /\ email_sends' = email_sends
             /\ tasks' = tasks
             /\ IF campaign.status \in {"sending", "scheduled"}
                THEN stp'.pc = "commit" /\ stp'.upd = [status |-> "cancelled"]
                ELSE stp'.pc = "idle" /\ stp'.outcome = "error"
       /\ (stp.pc = "commit" /\ stp'.pc # "commit")
          => /\ campaign' = [campaign EXCEPT !.status = "cancelled"]
             /\ email_sends' = email_sends
             /\ tasks' = tasks
             /\ stp'.outcome = "stopped"]_vars

\* 'stop campaign' was refused for a COMPLETED campaign, which is still
\* COMPLETED with its row SENT.
C38_Witness ==
    /\ stp.pc = "idle"
    /\ stp.outcome = "error"
    /\ campaign.status = "completed"
    /\ \E id \in DOMAIN email_sends : email_sends[id].status = "sent"

\* Send Worker invocation w stops at one of the checks that precede the
\* send: no EmailSend row, no campaign, a service that is not initialized.
StopsAtCheck(w) ==
    /\ wrk'[w] # wrk[w]
    /\ \/ wrk[w].pc = "load" /\ wrk[w].id \notin DOMAIN email_sends
       \/ wrk[w].pc = "load_campaign" /\ campaign.status = "deleted"
       \/ wrk[w].pc = "send" /\ wrk'[w].pc = "idle"

\* C37: a Send Worker invocation that stops at a check before the send (row
\* not found, campaign not found, service not initialized) returns 'error',
\* makes no send_email call and leaves the campaign, every EmailSend row and
\* the queue as they are: a PENDING row is still PENDING.
C37_PreSendCheckChangesNothing ==
    [][\A w \in Workers :
          StopsAtCheck(w)
              => /\ wrk'[w].pc = "idle"
                 /\ wrk'[w].result = "error"
                 /\ transport' = transport
                 /\ campaign' = campaign
                 /\ email_sends' = email_sends
                 /\ tasks' = tasks]_vars

\* A handler found its service missing and returned 'error': the row of its
\* task is PENDING, no send_email call was made for it and its task is in
\* the queue.
C37_Witness ==
    \E w \in Workers :
        /\ wrk[w].pc = "idle"
        /\ wrk[w].result = "error"
        /\ wrk[w].message = "unexpected"
        /\ \E id \in tasks :
              /\ id \in DOMAIN email_sends
              /\ email_sends[id].status = "pending"
              /\ transport[id] = 0

====
